---- MODULE Spec2Model ----
(***************************************************************************)
(* Model of src/bot.py: the movie recommendation bot.                      *)
(*                                                                         *)
(* Numbers.  A float is a record [k, v]: k = "num" with v the value in     *)
(* units of 10^-Prec, k = "inf" with v = 1 or -1, or k = "nan".  A text   *)
(* is a sequence of one-character strings.  float() and int() are modelled *)
(* for the part of Python's grammar that TextInputs uses: surrounding      *)
(* blanks, a sign, decimal digits with at most Prec fractional digits, and *)
(* the words nan / inf / infinity in any case.  Exponents and digit-group  *)
(* underscores are not modelled and do not occur in TextInputs.            *)
(*                                                                         *)
(* Dispatch.  Updates are handled one at a time, by the first handler of   *)
(* main() that accepts them; the conversation key is the user.             *)
(***************************************************************************)
EXTENDS Integers, Sequences, FiniteSets, TLC

\* ------------------------------------------------------------------ bounds
\* number of users talking to the bot
NumUsers == 2
\* number of fractional decimal digits a float value keeps
Prec == 2

Users == 1..NumUsers

\* --------------------------------------------------------------- constants
RATING == 0
YEAR == 1
POPULARITY == 2
END == 0 - 1

\* ------------------------------------------------------------------ floats
RECURSIVE Pow10(_)
Pow10(n) == IF n = 0 THEN 1 ELSE 10 * Pow10(n - 1)

Scale == Pow10(Prec)

\* the decimal number n / 100
Hund(n) == [k |-> "num", v |-> n * Pow10(Prec - 2)]

Num(v) == [k |-> "num", v |-> v]
NaN == [k |-> "nan", v |-> 0]
PosInf == [k |-> "inf", v |-> 1]
NegInf == [k |-> "inf", v |-> 0 - 1]

IsNaN(x) == x.k = "nan"

\* x <= y on floats: false as soon as one side is NaN
FLeq(x, y) ==
    /\ ~IsNaN(x)
    /\ ~IsNaN(y)
    /\ \/ x = y
       \/ x = NegInf
       \/ y = PosInf
       \/ x.k = "num" /\ y.k = "num" /\ x.v <= y.v

FGeq(x, y) == FLeq(y, x)

\* Series.min() / Series.max(): NaN entries are skipped, NaN when none is left
SeriesMin(vals) ==
    LET real == {x \in vals : ~IsNaN(x)}
    IN  IF real = {} THEN NaN
        ELSE CHOOSE m \in real : \A x \in real : FLeq(m, x)

SeriesMax(vals) ==
    LET real == {x \in vals : ~IsNaN(x)}
    IN  IF real = {} THEN NaN
        ELSE CHOOSE m \in real : \A x \in real : FLeq(x, m)

\* ------------------------------------------------------------------- texts
Digits == {"0", "1", "2", "3", "4", "5", "6", "7", "8", "9"}

DigitVal(c) ==
    CASE c = "0" -> 0 [] c = "1" -> 1 [] c = "2" -> 2 [] c = "3" -> 3
      [] c = "4" -> 4 [] c = "5" -> 5 [] c = "6" -> 6 [] c = "7" -> 7
      [] c = "8" -> 8 [] c = "9" -> 9

Lower(c) ==
    CASE c = "N" -> "n" [] c = "A" -> "a" [] c = "I" -> "i" [] c = "F" -> "f"
      [] c = "T" -> "t" [] c = "Y" -> "y" [] OTHER -> c

LowerAll(s) == [i \in 1..Len(s) |-> Lower(s[i])]

RECURSIVE StripLeft(_)
StripLeft(s) ==
    IF s # <<>> /\ Head(s) = " " THEN StripLeft(Tail(s)) ELSE s

RECURSIVE StripRight(_)
StripRight(s) ==
    IF s # <<>> /\ s[Len(s)] = " " THEN StripRight(SubSeq(s, 1, Len(s) - 1)) ELSE s

Strip(s) == StripRight(StripLeft(s))

AllDigits(s) == \A i \in 1..Len(s) : s[i] \in Digits

RECURSIVE DigitsVal(_)
DigitsVal(s) ==
    IF s = <<>> THEN 0
    ELSE 10 * DigitsVal(SubSeq(s, 1, Len(s) - 1)) + DigitVal(s[Len(s)])


HasSign(s) == s # <<>> /\ Head(s) \in {"+", "-"}
SignOf(s) == IF s # <<>> /\ Head(s) = "-" THEN 0 - 1 ELSE 1
Unsigned(s) == IF HasSign(s) THEN Tail(s) ELSE s

Failed == [ok |-> FALSE, val |-> NaN]
Parsed(x) == [ok |-> TRUE, val |-> x]

\* float(text): ok = FALSE stands for ValueError
ParseFloat(text) ==
    LET s == Strip(text)
        body == LowerAll(Unsigned(s))
        sg == SignOf(s)
        dots == {i \in 1..Len(body) : body[i] = "."}
    IN  IF body = <<"n", "a", "n">> THEN Parsed(NaN)
        ELSE IF body \in {<<"i", "n", "f">>, <<"i", "n", "f", "i", "n", "i", "t", "y">>}
        THEN Parsed([k |-> "inf", v |-> sg])
        ELSE IF dots = {}
        THEN IF body # <<>> /\ AllDigits(body)
             THEN Parsed(Num(sg * Scale * DigitsVal(body)))
             ELSE Failed
        ELSE IF Cardinality(dots) # 1 THEN Failed
        ELSE LET d == CHOOSE i \in dots : TRUE
                 ip == SubSeq(body, 1, d - 1)
                 fp == SubSeq(body, d + 1, Len(body))
             IN  IF /\ AllDigits(ip)
                    /\ AllDigits(fp)
                    /\ Len(ip) + Len(fp) > 0
                    /\ Len(fp) <= Prec
                 THEN Parsed(Num(sg * (Scale * DigitsVal(ip)
                                        + DigitsVal(fp) * Pow10(Prec - Len(fp)))))
                 ELSE Failed

\* int(text): ok = FALSE stands for ValueError; val is the integer
ParseInt(text) ==
    LET s == Strip(text)
        body == Unsigned(s)
    IN  IF body # <<>> /\ AllDigits(body)
        THEN [ok |-> TRUE, val |-> SignOf(s) * DigitsVal(body)]
        ELSE [ok |-> FALSE, val |-> 0]

TextInputs ==
    { <<"7", ".", "0">>, <<"7", ".", "5">>, <<"8", ".", "5">>, <<"2", ".", "9">>,
      <<"6", ".", "0">>, <<"9", ".", "0">>, <<"9", ".", "5">>, <<"6">>,
      <<"a", "b", "c">>, <<"2", "0", "2", "0">>, <<"1", "8", "9", "9">>,
      <<" ", "1", "9", "9", "9">>, <<"N", "a", "N">>, <<"i", "n", "f">>,
      <<"-", "1">> }

\* ----------------------------------------------------------------- sources
\* A release date is <<year, month, day>>; pd.to_datetime(errors='coerce')
\* turns anything that is no calendar date into NaT, whose year is NaN.
IsLeap(y) == (y % 4 = 0 /\ y % 100 # 0) \/ y % 400 = 0

DaysIn(y, m) ==
    IF m = 2 THEN (IF IsLeap(y) THEN 29 ELSE 28)
    ELSE IF m \in {4, 6, 9, 11} THEN 30 ELSE 31

IsDate(d) ==
    /\ d[1] \in 1678..2261
    /\ d[2] \in 1..12
    /\ d[3] \in 1..DaysIn(d[1], d[2])

NoYear == 0

\* pd.to_datetime(release_date, errors='coerce').dt.year, NoYear for NaN
YearOf(d) == IF IsDate(d) THEN d[1] ELSE NoYear

RawRow(t, ov, d, pop, va) ==
    [title |-> t, overview |-> ov, release_date |-> d,
     popularity |-> pop, vote_average |-> va]

required_cols ==
    {"title", "overview", "release_date", "popularity", "vote_average", "vote_count"}

AllCols == required_cols \cup {"poster_path"}

Source(isfile, cols, rows) == [isfile |-> isfile, columns |-> cols, rows |-> rows]

\* overview is "str" for a text and "nan" for an empty cell of the file
SrcMain ==
    Source(TRUE, AllCols,
        { RawRow("A", "str", <<1999, 3, 31>>, Hund(1050), Hund(600)),
          RawRow("B", "str", <<2020, 7, 16>>, Hund(5500), Hund(720)),
          RawRow("C", "str", <<2020, 12, 25>>, Hund(320), Hund(890)),
          RawRow("D", "str", <<2021, 13, 1>>, Hund(9900), Hund(990)) })

SrcBounds ==
    Source(TRUE, required_cols,
        { RawRow("E", "str", <<2001, 2, 28>>, Hund(100), Hund(300)),
          RawRow("F", "str", <<2010, 1, 1>>, Hund(200), Hund(850)) })

SrcRound ==
    Source(TRUE, AllCols,
        { RawRow("G", "str", <<2020, 2, 29>>, Hund(1000), Hund(604)),
          RawRow("H", "str", <<1999, 6, 1>>, Hund(2000), Hund(896)) })

SrcGaps ==
    Source(TRUE, AllCols,
        { RawRow("I", "nan", <<2020, 5, 5>>, Hund(700), Hund(700)),
          RawRow("J", "str", <<1999, 9, 9>>, NaN, NaN),
          RawRow("K", "str", <<2019, 2, 29>>, Hund(800), Hund(950)) })

SrcNoFile == Source(FALSE, AllCols, {})

SrcNoColumn ==
    Source(TRUE, AllCols \ {"vote_count"},
        { RawRow("L", "str", <<2005, 5, 5>>, Hund(500), Hund(500)) })

SrcNoDates ==
    Source(TRUE, AllCols,
        { RawRow("M", "str", <<2005, 2, 30>>, Hund(500), Hund(500)),
          RawRow("N", "str", <<0, 0, 0>>, Hund(600), Hund(600)) })

Sources == {SrcMain, SrcBounds, SrcRound, SrcGaps, SrcNoFile, SrcNoColumn, SrcNoDates}

WithYear(r) ==
    [title |-> r.title, overview |-> r.overview, release_date |-> r.release_date,
     popularity |-> r.popularity, vote_average |-> r.vote_average,
     year |-> YearOf(r.release_date)]

\* variant: an empty frame is accepted
load_movies_noempty(src) ==
    IF ~src.isfile THEN [ok |-> FALSE, df |-> {}]
    ELSE IF required_cols \ src.columns # {} THEN [ok |-> FALSE, df |-> {}]
    ELSE [ok |-> TRUE,
          df |-> {m \in {WithYear(r) : r \in src.rows} : m.year # NoYear}]

\* load_movies: ok = FALSE stands for the exception it re-raises
load_movies(src) ==
    IF ~src.isfile THEN [ok |-> FALSE, df |-> {}]
    ELSE IF required_cols \ src.columns # {} THEN [ok |-> FALSE, df |-> {}]
    ELSE LET df == {m \in {WithYear(r) : r \in src.rows} : m.year # NoYear}
         IN  IF df = {} THEN [ok |-> FALSE, df |-> {}]
             ELSE [ok |-> TRUE, df |-> df]

\* --------------------------------------------------------------- responses
NoMovie ==
    [title |-> "", overview |-> "str", release_date |-> <<0, 0, 0>>,
     popularity |-> NaN, vote_average |-> NaN, year |-> NoYear]

\* the criterion a handler resolved: f carries a rating or popularity, n a year
Crit(tag, f, n) == [tag |-> tag, f |-> f, n |-> n]
NoCrit == Crit("none", NaN, 0)

Resp(kind, u, movie, crit, lo, hi) ==
    [kind |-> kind, user |-> u, movie |-> movie, crit |-> crit, lo |-> lo, hi |-> hi]

Msg(kind, u, crit) == Resp(kind, u, NoMovie, crit, NaN, NaN)

\* what a handler did: the state it returned, whether it raised, what it sent,
\* the criterion it resolved, the frame it filtered and the frame it sampled from
Result(ret, raised, out, crit, didFilter, filtered, didSample, sampledFrom) ==
    [ret |-> ret, raised |-> raised, out |-> out, crit |-> crit,
     didFilter |-> didFilter, filtered |-> filtered,
     didSample |-> didSample, sampledFrom |-> sampledFrom]

Reply(ret, msg) == Result(ret, FALSE, <<msg>>, msg.crit, FALSE, {}, FALSE, {})

\* variant: the emptiness test never fires
empty_never(df) == FALSE

\* DataFrame.empty
empty(df) == df = {}

\* _send_movie_info: len(overview) raises TypeError on a NaN overview, before
\* anything is sent
send_movie_info(u, movie, crit) ==
    IF movie.overview # "str"
    THEN [raised |-> TRUE, out |-> <<>>]
    ELSE [raised |-> FALSE, out |-> <<Resp("ResultMovie", u, movie, crit, NaN, NaN)>>]

\* frame.sample(1).iloc[0] followed by _send_movie_info and `return ret`;
\* sample(1) raises ValueError on an empty frame
sample_and_send(u, frame, crit, ret, didFilter) ==
    IF frame = {}
    THEN { Result(ret, TRUE, <<>>, crit, didFilter, frame, TRUE, frame) }
    ELSE { LET s == send_movie_info(u, m, crit)
           IN  Result(ret, s.raised, s.out, crit, didFilter, frame, TRUE, frame)
           : m \in frame }

\* ---------------------------------------------------------------- handlers
start(u) == { Reply(END, Msg("Menu", u, NoCrit)) }

about(df, u) == { Reply(END, Msg("About", u, NoCrit)) }

\* random_movie under @require_data
random_movie(df, u) ==
    IF empty(df)
    THEN { Reply(END, Msg("NoData", u, NoCrit)) }
    ELSE sample_and_send(u, df, Crit("random", NaN, 0), END, FALSE)

\* round(x, 1); the catalogs hold no value half-way between two tenths
Round1(x) ==
    IF x.k # "num" THEN x
    ELSE LET unit == Scale \div 10
         IN  Num(((2 * x.v + unit) \div (2 * unit)) * unit)

RatingSeries(df) == {m.vote_average : m \in df}

choose_rating(df, u) ==
    { Reply(RATING, Resp("Prompt", u, NoMovie, Crit("rating", NaN, 0),
                         Round1(SeriesMin(RatingSeries(df))),
                         Round1(SeriesMax(RatingSeries(df))))) }

\* variant: the handler returns the state of another criterion
choose_year_as_rating(u) == { Reply(RATING, Msg("Prompt", u, Crit("year", NaN, 0))) }

choose_year(u) == { Reply(YEAR, Msg("Prompt", u, Crit("year", NaN, 0))) }

choose_popularity(u) == { Reply(POPULARITY, Msg("Prompt", u, Crit("popularity", NaN, 0))) }

\* variant: a strict comparison
filter_rating_strict(df, rating) ==
    {m \in df : FGeq(m.vote_average, rating) /\ m.vote_average # rating}

filter_rating(df, rating) == {m \in df : FGeq(m.vote_average, rating)}

filter_year(df, year) == {m \in df : m.year = year}

filter_popularity(df, popularity) == {m \in df : FGeq(m.popularity, popularity)}

NotFound(ret, u, crit, filtered) ==
    Result(ret, FALSE, <<Msg("NotFound", u, crit)>>, crit, TRUE, filtered, FALSE, {})

\* variant: the upper bound is exclusive
process_rating_exclusive(df, u, text) ==
    LET p == ParseFloat(text)
        crit == Crit("rating", p.val, 0)
        min_rating == SeriesMin(RatingSeries(df))
        max_rating == SeriesMax(RatingSeries(df))
        filtered == filter_rating(df, p.val)
    IN  IF ~p.ok
        THEN { Reply(RATING, Msg("ValidationError", u, Crit("rating", NaN, 0))) }
        ELSE IF ~(FLeq(min_rating, p.val) /\ FLeq(p.val, max_rating) /\ p.val # max_rating)
        THEN { Reply(RATING, Msg("ValidationError", u, crit)) }
        ELSE IF empty(filtered)
        THEN { NotFound(RATING, u, crit, filtered) }
        ELSE sample_and_send(u, filtered, crit, END, TRUE)

\* variant: no range check on the parsed rating
process_rating_norange(df, u, text) ==
    LET p == ParseFloat(text)
        crit == Crit("rating", p.val, 0)
        filtered == filter_rating(df, p.val)
    IN  IF ~p.ok
        THEN { Reply(RATING, Msg("ValidationError", u, Crit("rating", NaN, 0))) }
        ELSE IF empty(filtered)
        THEN { NotFound(RATING, u, crit, filtered) }
        ELSE sample_and_send(u, filtered, crit, END, TRUE)

process_rating(df, u, text) ==
    LET p == ParseFloat(text)
        rating == p.val
        crit == Crit("rating", rating, 0)
        min_rating == SeriesMin(RatingSeries(df))
        max_rating == SeriesMax(RatingSeries(df))
        filtered == filter_rating(df, rating)
    IN  IF ~p.ok
        THEN { Reply(RATING, Msg("ValidationError", u, Crit("rating", NaN, 0))) }
        ELSE IF ~(FLeq(min_rating, rating) /\ FLeq(rating, max_rating))
        THEN { Reply(RATING, Msg("ValidationError", u, crit)) }
        ELSE IF empty(filtered)
        THEN { NotFound(RATING, u, crit, filtered) }
        ELSE sample_and_send(u, filtered, crit, END, TRUE)

\* variant: a year outside the years of the catalog is refused
process_year_ranged(df, u, text) ==
    LET p == ParseInt(text)
        crit == Crit("year", NaN, p.val)
        filtered == filter_year(df, p.val)
    IN  IF ~p.ok
        THEN { Reply(YEAR, Msg("ValidationError", u, Crit("year", NaN, 0))) }
        ELSE IF ~(\E a \in df : a.year <= p.val) \/ ~(\E b \in df : p.val <= b.year)
        THEN { Reply(YEAR, Msg("ValidationError", u, crit)) }
        ELSE IF empty(filtered)
        THEN { NotFound(YEAR, u, crit, filtered) }
        ELSE sample_and_send(u, filtered, crit, END, TRUE)

\* variant: the movie is sampled from the whole frame
process_year_unfiltered(df, u, text) ==
    LET p == ParseInt(text)
        crit == Crit("year", NaN, p.val)
        filtered == filter_year(df, p.val)
    IN  IF ~p.ok
        THEN { Reply(YEAR, Msg("ValidationError", u, Crit("year", NaN, 0))) }
        ELSE IF empty(filtered)
        THEN { NotFound(YEAR, u, crit, filtered) }
        ELSE sample_and_send(u, df, crit, END, TRUE)

process_year(df, u, text) ==
    LET p == ParseInt(text)
        year == p.val
        crit == Crit("year", NaN, year)
        filtered == filter_year(df, year)
    IN  IF ~p.ok
        THEN { Reply(YEAR, Msg("ValidationError", u, Crit("year", NaN, 0))) }
        ELSE IF empty(filtered)
        THEN { NotFound(YEAR, u, crit, filtered) }
        ELSE sample_and_send(u, filtered, crit, END, TRUE)

\* variant: an empty result ends the conversation
process_popularity_ends(df, u, text) ==
    LET p == ParseFloat(text)
        crit == Crit("popularity", p.val, 0)
        filtered == filter_popularity(df, p.val)
    IN  IF ~p.ok
        THEN { Reply(POPULARITY, Msg("ValidationError", u, Crit("popularity", NaN, 0))) }
        ELSE IF empty(filtered)
        THEN { NotFound(END, u, crit, filtered) }
        ELSE sample_and_send(u, filtered, crit, END, TRUE)

process_popularity(df, u, text) ==
    LET p == ParseFloat(text)
        popularity == p.val
        crit == Crit("popularity", popularity, 0)
        filtered == filter_popularity(df, popularity)
    IN  IF ~p.ok
        THEN { Reply(POPULARITY, Msg("ValidationError", u, Crit("popularity", NaN, 0))) }
        ELSE IF empty(filtered)
        THEN { NotFound(POPULARITY, u, crit, filtered) }
        ELSE sample_and_send(u, filtered, crit, END, TRUE)

cancel(u) == { Reply(END, Msg("Cancelled", u, NoCrit)) }

\* error_handler: the reply sent when a handler raised
error_handler(u) == <<Msg("Failure", u, NoCrit)>>

\* ---------------------------------------------------------------- dispatch
\* variant: a conversation that is open takes no entry point
allow_reentry_off == FALSE

allow_reentry == TRUE

\* variant: the rating text handler is also an entry point
conv_handler_text_entry(state, kind) ==
    IF kind = "text" /\ state = END THEN "process_rating"
    ELSE IF kind = "text"
    THEN (CASE state = RATING -> "process_rating"
            [] state = YEAR -> "process_year"
            [] state = POPULARITY -> "process_popularity")
    ELSE IF kind = "cancel" THEN (IF state = END THEN "none" ELSE "cancel")
    ELSE IF state = END \/ allow_reentry
    THEN (CASE kind = "rating" -> "choose_rating"
            [] kind = "year" -> "choose_year"
            [] kind = "popularity" -> "choose_popularity")
    ELSE "none"

\* variant: the conversation has no fallback
conv_handler_no_fallback(state, kind) ==
    IF (state = END \/ allow_reentry) /\ kind \in {"rating", "year", "popularity"}
    THEN (CASE kind = "rating" -> "choose_rating"
            [] kind = "year" -> "choose_year"
            [] kind = "popularity" -> "choose_popularity")
    ELSE IF state = END \/ kind # "text" THEN "none"
    ELSE CASE state = RATING -> "process_rating"
           [] state = YEAR -> "process_year"
           [] state = POPULARITY -> "process_popularity"
           [] OTHER -> "none"

\* ConversationHandler.check_update: the handler of the conversation that
\* takes an update of the given kind in the given state, "none" when the
\* conversation handler declines it
conv_handler(state, kind) ==
    LET entry ==
            CASE kind = "rating" -> "choose_rating"
              [] kind = "year" -> "choose_year"
              [] kind = "popularity" -> "choose_popularity"
              [] OTHER -> "none"
        inState ==
            IF kind # "text" THEN "none"
            ELSE CASE state = RATING -> "process_rating"
                   [] state = YEAR -> "process_year"
                   [] state = POPULARITY -> "process_popularity"
                   [] OTHER -> "none"
        fallback == IF kind = "cancel" THEN "cancel" ELSE "none"
    IN  IF (state = END \/ allow_reentry) /\ entry # "none" THEN entry
        ELSE IF state = END THEN "none"
        ELSE IF inState # "none" THEN inState
        ELSE fallback
\* ------------------------------------------------------------------- state
VARIABLES
    phase,          \* "boot", "exit" (no token), "crashed" (load raised), "polling"
    BOT_TOKEN,      \* whether TELEGRAM_BOT_TOKEN is set
    source,         \* the file at MOVIES_DB_PATH
    movies_df,      \* bot.movies_df
    conversations,  \* the conversation state of each user, END when none is open
    last,           \* the update handled last and what its handler did
    out             \* the messages sent for that update

vars == <<phase, BOT_TOKEN, source, movies_df, conversations, last, out>>

NoUpdate ==
    [type |-> "none", user |-> 0, text |-> <<>>, from |-> END, handler |-> "none",
     raised |-> FALSE, crit |-> NoCrit, didFilter |-> FALSE, filtered |-> {},
     didSample |-> FALSE, sampledFrom |-> {}]

Init ==
    /\ phase = "boot"
    /\ BOT_TOKEN \in BOOLEAN
    /\ source \in Sources
    /\ movies_df = {}
    /\ conversations = [u \in Users |-> END]
    /\ last = NoUpdate
    /\ out = <<>>

\* main() up to run_polling()
Main ==
    /\ phase = "boot"
    /\ LET l == load_movies(source)
       IN  IF ~BOT_TOKEN THEN phase' = "exit" /\ movies_df' = movies_df
           ELSE IF ~l.ok THEN phase' = "crashed" /\ movies_df' = movies_df
           ELSE phase' = "polling" /\ movies_df' = l.df
    /\ UNCHANGED <<BOT_TOKEN, source, conversations, last, out>>

\* variant: one conversation state shared by all users
Handle_shared(u, type, text, handler, inConv, r) ==
    /\ conversations' =
           IF inConv /\ ~r.raised THEN [b \in Users |-> r.ret]
           ELSE conversations
    /\ out' = IF r.raised THEN error_handler(u) ELSE r.out
    /\ last' = [type |-> type, user |-> u, text |-> text, from |-> conversations[u],
                handler |-> handler, raised |-> r.raised, crit |-> r.crit,
                didFilter |-> r.didFilter, filtered |-> r.filtered,
                didSample |-> r.didSample, sampledFrom |-> r.sampledFrom]
    /\ UNCHANGED <<phase, BOT_TOKEN, source, movies_df>>

\* variant: every handler's return value is stored as the conversation state
Handle_all_in_conv(u, type, text, handler, inConv, r) ==
    /\ conversations' =
           IF handler # "none" /\ ~r.raised THEN [conversations EXCEPT ![u] = r.ret]
           ELSE conversations
    /\ out' = IF r.raised THEN error_handler(u) ELSE r.out
    /\ last' = [type |-> type, user |-> u, text |-> text, from |-> conversations[u],
                handler |-> handler, raised |-> r.raised, crit |-> r.crit,
                didFilter |-> r.didFilter, filtered |-> r.filtered,
                didSample |-> r.didSample, sampledFrom |-> r.sampledFrom]
    /\ UNCHANGED <<phase, BOT_TOKEN, source, movies_df>>

\* variant: a handler that filters keeps the filtered frame as the catalog
Handle_narrows(u, type, text, handler, inConv, r) ==
    /\ conversations' =
           IF inConv /\ ~r.raised THEN [conversations EXCEPT ![u] = r.ret]
           ELSE conversations
    /\ out' = IF r.raised THEN error_handler(u) ELSE r.out
    /\ last' = [type |-> type, user |-> u, text |-> text, from |-> conversations[u],
                handler |-> handler, raised |-> r.raised, crit |-> r.crit,
                didFilter |-> r.didFilter, filtered |-> r.filtered,
                didSample |-> r.didSample, sampledFrom |-> r.sampledFrom]
    /\ movies_df' = IF r.didFilter /\ r.filtered # {} THEN r.filtered ELSE movies_df
    /\ UNCHANGED <<phase, BOT_TOKEN, source>>

\* One update handled to completion by `handler`, with result r.  A handler
\* of the conversation stores the state it returns; a handler that raises
\* leaves the conversation as it was and the error handler replies.
Handle(u, type, text, handler, inConv, r) ==
    /\ conversations' =
           IF inConv /\ ~r.raised THEN [conversations EXCEPT ![u] = r.ret]
           ELSE conversations
    /\ out' = IF r.raised THEN error_handler(u) ELSE r.out
    /\ last' = [type |-> type, user |-> u, text |-> text, from |-> conversations[u],
                handler |-> handler, raised |-> r.raised, crit |-> r.crit,
                didFilter |-> r.didFilter, filtered |-> r.filtered,
                didSample |-> r.didSample, sampledFrom |-> r.sampledFrom]
    /\ UNCHANGED <<phase, BOT_TOKEN, source, movies_df>>

NoResult == Result(END, FALSE, <<>>, NoCrit, FALSE, {}, FALSE, {})

\* /start
Start(u) ==
    /\ phase = "polling"
    /\ \E r \in start(u) : Handle(u, "start", <<>>, "start", FALSE, r)

\* callback 'back'
Back(u) ==
    /\ phase = "polling"
    /\ \E r \in start(u) : Handle(u, "back", <<>>, "start", FALSE, r)

\* callback 'about'
About(u) ==
    /\ phase = "polling"
    /\ \E r \in about(movies_df, u) : Handle(u, "about", <<>>, "about", FALSE, r)

\* callback 'random'
SelectRandom(u) ==
    /\ phase = "polling"
    /\ \E r \in random_movie(movies_df, u) :
           Handle(u, "random", <<>>, "random_movie", FALSE, r)

\* callback 'rating'
SelectRating(u) ==
    /\ phase = "polling"
    /\ conv_handler(conversations[u], "rating") = "choose_rating"
    /\ \E r \in choose_rating(movies_df, u) :
           Handle(u, "rating", <<>>, "choose_rating", TRUE, r)

\* callback 'year'
SelectYear(u) ==
    /\ phase = "polling"
    /\ conv_handler(conversations[u], "year") = "choose_year"
    /\ \E r \in choose_year(u) : Handle(u, "year", <<>>, "choose_year", TRUE, r)

\* callback 'popularity'
SelectPopularity(u) ==
    /\ phase = "polling"
    /\ conv_handler(conversations[u], "popularity") = "choose_popularity"
    /\ \E r \in choose_popularity(u) :
           Handle(u, "popularity", <<>>, "choose_popularity", TRUE, r)

\* a text message that is no command, in state RATING
TextRating(u, text) ==
    /\ phase = "polling"
    /\ conv_handler(conversations[u], "text") = "process_rating"
    /\ \E r \in process_rating(movies_df, u, text) :
           Handle(u, "text", text, "process_rating", TRUE, r)

\* a text message that is no command, in state YEAR
TextYear(u, text) ==
    /\ phase = "polling"
    /\ conv_handler(conversations[u], "text") = "process_year"
    /\ \E r \in process_year(movies_df, u, text) :
           Handle(u, "text", text, "process_year", TRUE, r)

\* a text message that is no command, in state POPULARITY
TextPopularity(u, text) ==
    /\ phase = "polling"
    /\ conv_handler(conversations[u], "text") = "process_popularity"
    /\ \E r \in process_popularity(movies_df, u, text) :
           Handle(u, "text", text, "process_popularity", TRUE, r)

\* /cancel taken by the fallback of the conversation
Cancel(u) ==
    /\ phase = "polling"
    /\ conv_handler(conversations[u], "cancel") = "cancel"
    /\ \E r \in cancel(u) : Handle(u, "cancel", <<>>, "cancel", TRUE, r)

\* the kinds of update that only the conversation handler can take
ConvKinds == {"rating", "year", "popularity", "text", "cancel"}

\* an update no handler of main() accepts: nothing runs, nothing is sent
Unhandled(u, kind, text) ==
    /\ phase = "polling"
    /\ conv_handler(conversations[u], kind) = "none"
    /\ Handle(u, kind, text, "none", FALSE, NoResult)

Next ==
    \/ Main
    \/ \E u \in Users : Start(u)
    \/ \E u \in Users : Back(u)
    \/ \E u \in Users : About(u)
    \/ \E u \in Users : SelectRandom(u)
    \/ \E u \in Users : SelectRating(u)
    \/ \E u \in Users : SelectYear(u)
    \/ \E u \in Users : SelectPopularity(u)
    \/ \E u \in Users, text \in TextInputs : TextRating(u, text)
    \/ \E u \in Users, text \in TextInputs : TextYear(u, text)
    \/ \E u \in Users, text \in TextInputs : TextPopularity(u, text)
    \/ \E u \in Users : Cancel(u)
    \/ \E u \in Users, kind \in ConvKinds :
           \E text \in (IF kind = "text" THEN TextInputs ELSE {<<>>}) :
               Unhandled(u, kind, text)

Spec == Init /\ [][Next]_vars
\* ================================================================== claims
Awaiting == {RATING, YEAR, POPULARITY}

\* x >= t over the reals extended by the infinities; NaN is above nothing
\* and nothing is above NaN
AtLeast(x, t) ==
    \/ x.k = "num" /\ t.k = "num" /\ x.v >= t.v
    \/ x.k = "num" /\ t = NegInf
    \/ x = PosInf /\ t.k # "nan"
    \/ x = NegInf /\ t = NegInf

\* the predicate of a criterion
Satisfies(m, crit) ==
    CASE crit.tag = "random" -> TRUE
      [] crit.tag = "rating" -> AtLeast(m.vote_average, crit.f)
      [] crit.tag = "year" -> m.year = crit.n
      [] crit.tag = "popularity" -> AtLeast(m.popularity, crit.f)
      [] OTHER -> FALSE

Matching(crit) == {m \in movies_df : Satisfies(m, crit)}

\* the criterion a text stands for in an awaiting state, once it has parsed
TextParses(state, text) ==
    IF state = YEAR THEN ParseInt(text).ok ELSE ParseFloat(text).ok

TextCrit(state, text) ==
    CASE state = RATING -> Crit("rating", ParseFloat(text).val, 0)
      [] state = YEAR -> Crit("year", NaN, ParseInt(text).val)
      [] state = POPULARITY -> Crit("popularity", ParseFloat(text).val, 0)

\* the ratings present in the catalog and whether r lies between them
CatalogRatings == {m.vote_average.v : m \in {x \in movies_df : x.vote_average.k = "num"}}

WithinRatings(r) ==
    /\ r.k = "num"
    /\ \E lo \in CatalogRatings : lo <= r.v
    /\ \E hi \in CatalogRatings : r.v <= hi

\* whether a text passes the validation of the state it is received in
TextValid(state, text) ==
    /\ TextParses(state, text)
    /\ state = RATING => WithinRatings(ParseFloat(text).val)

TextUpdate == last.type = "text" /\ last.from \in Awaiting

Kinds(seq) == [i \in 1..Len(seq) |-> seq[i].kind]

Range(seq) == {seq[i] : i \in 1..Len(seq)}

\* C1: the candidate set a handler computes is exactly the set of catalog
\* movies that satisfy the criterion it resolved: voteAverage >= r,
\* releaseYear = y, popularity >= p, and the whole catalog for a random pick.
C1_CandidatesExact ==
    /\ last.didFilter =>
           /\ last.crit = TextCrit(last.from, last.text)
           /\ last.filtered = Matching(last.crit)
    /\ (last.handler = "random_movie" /\ last.didSample) => last.sampledFrom = movies_df

C1_Witness ==
    /\ last.didFilter
    /\ last.handler = "process_rating"
    /\ last.filtered # {}
    /\ last.filtered # movies_df
    /\ \E m \in last.filtered : m.vote_average = last.crit.f

\* C2: the random choice is never made on an empty candidate set, and the
\* catalog is non-empty whenever updates are being handled.
C2_NeverSampleEmpty ==
    /\ last.didSample => last.sampledFrom # {}
    /\ phase = "polling" => movies_df # {}

C2_Witness ==
    /\ last.handler = "process_year"
    /\ last.didFilter
    /\ last.filtered = {}
    /\ ~last.didSample
    /\ Kinds(out) = <<"NotFound">>

\* C3: a movie presented as a result belongs to the candidate set of the
\* criterion just resolved: a catalog movie with voteAverage >= r after a
\* rating input r, releaseYear = y after a year input y, popularity >= p after
\* a popularity input p, and some catalog movie after selectRandom.
C3_ResultIsCandidate ==
    \A i \in 1..Len(out) :
        out[i].kind = "ResultMovie" =>
            /\ out[i].movie \in movies_df
            /\ last.type \in {"text", "random"}
            /\ last.type = "text" =>
                   /\ last.from \in Awaiting
                   /\ Satisfies(out[i].movie, TextCrit(last.from, last.text))

C3_Witness ==
    /\ last.handler = "process_year"
    /\ Kinds(out) = <<"ResultMovie">>
    /\ \E m \in movies_df : m.year # out[1].movie.year

\* C4, as stated: from any state, Idle included, a cancel moves the user to
\* Idle and is acknowledged with Cancelled.
C4_CancelAlwaysAcknowledged ==
    last.type = "cancel" =>
        /\ conversations[last.user] = END
        /\ Kinds(out) = <<"Cancelled">>

\* C4, amended: a cancel always leaves the user in Idle; it is acknowledged
\* with Cancelled when a session was open, and draws no reply in Idle.
C4_CancelFromAwaiting ==
    last.type = "cancel" =>
        /\ conversations[last.user] = END
        /\ last.from \in Awaiting => Kinds(out) = <<"Cancelled">> /\ out[1].user = last.user
        /\ last.from = END => out = <<>>

C4_Witness ==
    /\ last.type = "cancel"
    /\ last.from = POPULARITY
    /\ conversations[last.user] = END
    /\ Kinds(out) = <<"Cancelled">>

\* C5: in an awaiting state a text that fails validation (it does not parse,
\* or as a rating lies outside the catalog's ratings) keeps the state, is
\* answered by a ValidationError and nothing else, and raises no error.
C5_InvalidInputReprompts ==
    (TextUpdate /\ ~TextValid(last.from, last.text)) =>
        /\ conversations[last.user] = last.from
        /\ Kinds(out) = <<"ValidationError">>
        /\ ~last.raised

C5_Witness ==
    /\ TextUpdate
    /\ last.from = RATING
    /\ TextParses(RATING, last.text)
    /\ ~TextValid(RATING, last.text)
    /\ Kinds(out) = <<"ValidationError">>
    /\ conversations[last.user] = RATING

\* C6: in AwaitingYear or AwaitingPopularity a text that validates and
\* matches no catalog movie is answered by NotFound and keeps the state.
C6_EmptyResultKeepsSession ==
    (/\ TextUpdate
     /\ last.from \in {YEAR, POPULARITY}
     /\ TextValid(last.from, last.text)
     /\ Matching(TextCrit(last.from, last.text)) = {}) =>
        /\ Kinds(out) = <<"NotFound">>
        /\ conversations[last.user] = last.from
        /\ ~last.raised

C6_Witness ==
    /\ TextUpdate
    /\ last.from = POPULARITY
    /\ Kinds(out) = <<"NotFound">>
    /\ conversations[last.user] = POPULARITY
\* C7, as stated: in an awaiting state a text that validates and matches at
\* least one movie is answered by exactly one ResultMovie and returns the user
\* to Idle, and a text returns the user to Idle in that case only.
C7_ResolutionEndsSession ==
    TextUpdate =>
        LET resolves ==
                /\ TextValid(last.from, last.text)
                /\ Matching(TextCrit(last.from, last.text)) # {}
        IN  /\ resolves =>
                   /\ Kinds(out) = <<"ResultMovie">>
                   /\ conversations[last.user] = END
            /\ conversations[last.user] = END => resolves

Selects == {"rating", "year", "popularity"}

StateOf(type) ==
    CASE type = "rating" -> RATING
      [] type = "year" -> YEAR
      [] type = "popularity" -> POPULARITY

\* C8: a selection made while a session is open replaces that session by the
\* new one, answered by the new prompt and without error, and the user's next
\* text is handled as the newly selected criterion.
C8_ReentryReplaces ==
    [][ /\ (last'.type \in Selects /\ last'.from \in Awaiting) =>
               /\ last'.from = conversations[last'.user]
               /\ conversations'[last'.user] = StateOf(last'.type)
               /\ Kinds(out') = <<"Prompt">>
               /\ out'[1].crit.tag = last'.type
               /\ ~last'.raised
        /\ (/\ last.type \in Selects
            /\ last.from \in Awaiting
            /\ last'.type = "text"
            /\ last'.user = last.user) =>
               /\ last'.from = StateOf(last.type)
               /\ last'.crit.tag = last.type
      ]_vars

C8_Witness ==
    /\ last.type = "year"
    /\ last.from = RATING
    /\ conversations[last.user] = YEAR
    /\ Kinds(out) = <<"Prompt">>

\* C9, as stated: selectRandom is answered at once by a ResultMovie drawn from
\* the whole catalog and leaves the dialog state as it was.
C9_RandomResolvesInPlace ==
    last.type = "random" =>
        /\ Kinds(out) = <<"ResultMovie">>
        /\ out[1].movie \in movies_df
        /\ conversations[last.user] = last.from

\* C10, as stated: a cancel followed by a selectRandom of the same user leaves
\* the user in Idle and the selectRandom is answered by a ResultMovie.
C10_CancelThenRandom ==
    [][ (/\ last.type = "cancel"
         /\ last'.type = "random"
         /\ last'.user = last.user) =>
            /\ conversations'[last.user] = END
            /\ Kinds(out') = <<"ResultMovie">>
      ]_vars
\* C11: from Idle a selection opens the session of the selected criterion and
\* is answered by exactly one Prompt; a user's awaited field only ever becomes
\* the field of a selection that user has just made.
C11_SelectionOpensSession ==
    [][ /\ (last'.type \in Selects /\ last'.from = END /\ last' # last) =>
               /\ conversations[last'.user] = END
               /\ conversations'[last'.user] = StateOf(last'.type)
               /\ Kinds(out') = <<"Prompt">>
               /\ out'[1].user = last'.user
               /\ out'[1].crit.tag = last'.type
        /\ \A u \in Users :
               (conversations'[u] \in Awaiting /\ conversations'[u] # conversations[u]) =>
                   /\ last'.user = u
                   /\ last'.type \in Selects
                   /\ conversations'[u] = StateOf(last'.type)
      ]_vars

C11_Witness ==
    /\ last.type = "popularity"
    /\ last.from = END
    /\ conversations[last.user] = POPULARITY
    /\ Kinds(out) = <<"Prompt">>
    /\ out[1].crit.tag = "popularity"

Text75 == <<"7", ".", "5">>
Text85 == <<"8", ".", "5">>
Text29 == <<"2", ".", "9">>
TextAbc == <<"a", "b", "c">>

\* C12: a rating text is accepted exactly when it parses as a number r with
\* minRating <= r <= maxRating, both bounds included, and is refused with a
\* ValidationError otherwise; over ratings 3.0 .. 8.5 the texts 7.5 and 8.5 are
\* accepted, 2.9 and abc are refused.
C12_RatingValidation ==
    (TextUpdate /\ last.from = RATING) =>
        LET p == ParseFloat(last.text)
            accepted == last.didFilter
        IN  /\ accepted <=> (p.ok /\ WithinRatings(p.val))
            /\ accepted => last.crit.f = p.val /\ "ValidationError" \notin Range(Kinds(out))
            /\ ~accepted => Kinds(out) = <<"ValidationError">>
            /\ CatalogRatings = {Hund(300).v, Hund(850).v} =>
                   /\ last.text \in {Text75, Text85} => accepted
                   /\ last.text \in {Text29, TextAbc} => ~accepted

C12_Witness ==
    /\ TextUpdate
    /\ last.from = RATING
    /\ CatalogRatings = {Hund(300).v, Hund(850).v}
    /\ last.text = Text85
    /\ last.didFilter
    /\ last.crit.f = Hund(850)
    /\ Kinds(out) = <<"ResultMovie">>

\* C13: a year or popularity text passes validation as soon as it parses, as
\* an integer or as a number, whatever its value: a ValidationError is sent
\* exactly on a parse failure, and a parsed value that matches no movie is
\* answered by NotFound.
C13_ParseOnlyValidation ==
    (TextUpdate /\ last.from \in {YEAR, POPULARITY}) =>
        /\ TextParses(last.from, last.text) <=> last.didFilter
        /\ ~TextParses(last.from, last.text) <=> Kinds(out) = <<"ValidationError">>
        /\ (last.didFilter /\ last.filtered = {}) => Kinds(out) = <<"NotFound">>

C13_Witness ==
    /\ TextUpdate
    /\ last.from = YEAR
    /\ ParseInt(last.text).ok
    /\ \A m \in movies_df : ParseInt(last.text).val < m.year
    /\ Kinds(out) = <<"NotFound">>

\* the rows of the file that have a calendar release date
Dated(src) == {r \in src.rows : IsDate(r.release_date)}

Unloadable(src) ==
    \/ ~src.isfile
    \/ ~(required_cols \subseteq src.columns)
    \/ Dated(src) = {}

\* C14: with a token set, loading raises exactly when the file is missing, a
\* required column is missing or no row has a derivable year, and then no
\* catalog exists and no update is ever handled; when loading succeeds the
\* catalog is non-empty and holds exactly the rows with a derivable year.
C14_LoadFailsOrCatalogUsable ==
    /\ (phase # "boot" /\ BOT_TOKEN) => (phase = "crashed" <=> Unloadable(source))
    /\ phase \in {"boot", "exit", "crashed"} =>
           movies_df = {} /\ last = NoUpdate /\ out = <<>>
    /\ phase = "polling" =>
           /\ movies_df # {}
           /\ \A m \in movies_df : m.year # NoYear /\ m.year = m.release_date[1]
           /\ {m.title : m \in movies_df} = {r.title : r \in Dated(source)}

C14_Witness ==
    /\ phase = "crashed"
    /\ source.isfile
    /\ required_cols \subseteq source.columns
    /\ source.rows # {}
\* C15: an update handled for one user leaves the dialog state of every other
\* user as it was.
C15_UsersIsolated ==
    [][ \A b \in Users :
            (last'.type # "none" /\ b # last'.user) =>
                conversations'[b] = conversations[b]
      ]_vars

C15_Witness ==
    \E a, b \in Users :
        /\ a # b
        /\ conversations[a] = RATING
        /\ conversations[b] = YEAR
        /\ last.user = b
        /\ last.type = "year"

Outside == {"start", "about", "back", "random"}

\* C16: a user leaves an awaiting state only by a text of theirs that is
\* answered by a ResultMovie, by a cancel or by a new selection; start, about,
\* back and selectRandom, and every text not answered by a ResultMovie, leave
\* the awaited field of every user unchanged.
C16_SessionPersists ==
    [][ /\ \A u \in Users :
               (conversations[u] \in Awaiting /\ conversations'[u] # conversations[u]) =>
                   /\ last'.user = u
                   /\ \/ last'.type = "cancel"
                      \/ last'.type \in Selects
                      \/ last'.type = "text" /\ Kinds(out') = <<"ResultMovie">>
        /\ last'.type \in Outside => conversations' = conversations
        /\ (last'.type = "text" /\ Kinds(out') # <<"ResultMovie">>) =>
               conversations' = conversations
      ]_vars

C16_Witness ==
    /\ last.type = "random"
    /\ last.from = YEAR
    /\ conversations[last.user] = YEAR
    /\ Kinds(out) = <<"ResultMovie">>

\* C17: once the catalog is loaded no update changes its rows or the rating
\* bounds derived from it, and the bot keeps polling.
C17_CatalogReadOnly ==
    [][ phase = "polling" =>
            /\ phase' = "polling"
            /\ movies_df' = movies_df
            /\ SeriesMin(RatingSeries(movies_df')) = SeriesMin(RatingSeries(movies_df))
            /\ SeriesMax(RatingSeries(movies_df')) = SeriesMax(RatingSeries(movies_df))
      ]_vars

C17_Witness ==
    /\ phase = "polling"
    /\ last.handler = "process_popularity"
    /\ last.didFilter
    /\ last.filtered # {}
    /\ last.filtered # movies_df
    /\ {m.title : m \in movies_df} = {r.title : r \in Dated(source)}

\* C18, as stated: every rating inside the range shown by the selectRating
\* prompt is accepted by the validation of the text that follows.
C18_PromptBoundsAccepted ==
    [][ (/\ last.type = "rating"
         /\ Kinds(out) = <<"Prompt">>
         /\ last'.type = "text"
         /\ last'.user = last.user
         /\ last'.from = RATING
         /\ ParseFloat(last'.text).ok
         /\ FLeq(out[1].lo, ParseFloat(last'.text).val)
         /\ FLeq(ParseFloat(last'.text).val, out[1].hi)) =>
            last'.didFilter
      ]_vars

\* C19, as stated: a rating that passes validation has a non-empty candidate
\* set, so the text is answered by a ResultMovie and the user returns to Idle.
C19_ValidRatingResolves ==
    (TextUpdate /\ last.from = RATING /\ TextValid(RATING, last.text)) =>
        /\ Matching(TextCrit(RATING, last.text)) # {}
        /\ last.filtered # {}
        /\ Kinds(out) = <<"ResultMovie">>
        /\ conversations[last.user] = END

\* C20: a text received in Idle is taken by no handler: nothing is sent, no
\* criterion is evaluated and the user stays in Idle.
C20_IdleTextIgnored ==
    (last.type = "text" /\ last.from = END) =>
        /\ out = <<>>
        /\ last.handler = "none"
        /\ ~last.didFilter
        /\ ~last.didSample
        /\ conversations[last.user] = END

C20_Witness ==
    /\ last.type = "text"
    /\ last.from = END
    /\ ParseFloat(last.text).ok
    /\ out = <<>>
    /\ conversations[last.user] = END
====
